---- MODULE Spec2Model ----
(***************************************************************************)
(* The state machine of src/frontend/src/App.tsx: the paginated artworks   *)
(* table with a selection ledger that survives page changes and a          *)
(* "select first N" panel.                                                 *)
(*                                                                         *)
(* A record is represented by its id (dataKey="id" is the only key the     *)
(* component reads).  A text value is a sequence of one-character strings. *)
(* Each variable holds the value last passed to the setter of the same     *)
(* name.                                                                   *)
(***************************************************************************)
EXTENDS Integers, Sequences, FiniteSets, Bags, TLC

\* ------------------------------------------------------------------ bounds

\* Number of records in the remote collection (ids 1..NumRecords, sorted asc).
NumRecords == 16

\* Largest number of network requests outstanding at the same time.
MaxInFlight == 2

\* Largest number of page-change events that are counted.
MaxChanges == 3

\* ------------------------------------------------------ program constants

RowsPerPageOptions == {10, 20, 50}

PageFields ==
    "id,title,place_of_origin,artist_display,inscriptions,date_start,date_end"

BulkFields == "id"

\* JavaScript's undefined as the value of artworks: no response's data is
\* this sequence, because ids are positive.
Undefined == <<0>>

\* ------------------------------------------------------------------- state

VARIABLES
    loading,        \* boolean
    artworks,       \* Displayed Page: sequence of ids, or Undefined
    totalRecords,   \* Total Record Count
    selection,      \* Selection Ledger: set of ids
    isPanelOpen,    \* boolean
    numToSelect,    \* text of the numeric input
    lazyState,      \* Page State: [first, rows, page]
    pageInFlight,   \* bag of page requests awaiting their response
    bulkInFlight,   \* bag of bulk-identifier requests awaiting their response
    mounted,        \* FALSE once a render has thrown (artworks.filter on undefined)
    mark,           \* history: an id a selection event added (0: none)
    markArt,        \* history: the Displayed Page when mark was added
    trip,           \* history: "none", "marked", "away" or "back"
    issueReq,       \* history: the page request issued last
    issueArt,       \* history: the Displayed Page when issueReq was issued
    issueTotal,     \* history: the Total Record Count when issueReq was issued
    changes,        \* history: number of page-change events so far
    issued,         \* history: number of page requests issued so far
    race,           \* history: how far a race of two page fetches has got
    raceReq         \* history: the request of the superseded fetch of the race

prog == <<loading, artworks, totalRecords, selection, isPanelOpen, numToSelect,
          lazyState, pageInFlight, bulkInFlight, mounted>>

tripHist == <<mark, markArt, trip>>

issueHist == <<issueReq, issueArt, issueTotal>>

countHist == <<changes, issued>>

raceHist == <<race, raceReq>>

hist == <<tripHist, issueHist, countHist, raceHist>>

vars == <<prog, hist>>

\* ------------------------------------------------------------ pure helpers

Min(a, b) == IF a < b THEN a ELSE b

Max(a, b) == IF a < b THEN b ELSE a

Range(s) == {s[i] : i \in 1..Len(s)}

\* parseInt(text, 10): optional leading white space, optional sign, then the
\* longest run of decimal digits; NaN when that run is empty.
Digits == <<"0", "1", "2", "3", "4", "5", "6", "7", "8", "9">>

IsDigit(c) == \E d \in 1..10 : Digits[d] = c

DigitValue(c) == (CHOOSE d \in 1..10 : Digits[d] = c) - 1

RECURSIVE SkipSpace(_)
SkipSpace(s) ==
    IF s # <<>> /\ Head(s) = " " THEN SkipSpace(Tail(s)) ELSE s

RECURSIVE DigitRun(_)
DigitRun(s) ==
    IF s # <<>> /\ IsDigit(Head(s)) THEN <<Head(s)>> \o DigitRun(Tail(s)) ELSE <<>>

RECURSIVE DecimalValue(_)
DecimalValue(ds) ==
    IF ds = <<>> THEN 0
    ELSE 10 * DecimalValue(SubSeq(ds, 1, Len(ds) - 1)) + DigitValue(ds[Len(ds)])

ParseInt(text) ==
    LET t      == SkipSpace(text)
        signed == t # <<>> /\ Head(t) \in {"-", "+"}
        body   == IF signed THEN Tail(t) ELSE t
        run    == DigitRun(body)
        mag    == DecimalValue(run)
    IN  IF run = <<>> THEN [isNaN |-> TRUE, value |-> 0]
        ELSE [isNaN |-> FALSE,
              value |-> IF signed /\ Head(t) = "-" THEN 0 - mag ELSE mag]

\* The guard without its count <= 0 half.
InvalidCountNaNOnly(count) == count.isNaN

\* The guard of handleSelectTopN: isNaN(count) || count <= 0.
InvalidCount(count) == count.isNaN \/ count.value <= 0

\* The zero-based page index sent as it is.
ApiPageZeroBased(page) == page

\* apiPage = lazyState.page ? lazyState.page + 1 : 1
ApiPage(page) == IF page # 0 THEN page + 1 ELSE 1

PageRequest(ls) ==
    [page |-> ApiPage(ls.page), limit |-> ls.rows, fields |-> PageFields]

\* The bulk request asking for the page of the current Page State.
BulkRequestOfCurrentPage(count) ==
    [page |-> ApiPage(lazyState.page), limit |-> count, fields |-> BulkFields]

BulkRequest(count) ==
    [page |-> 1, limit |-> count, fields |-> BulkFields]

\* ------------------------------------------------------ remote collection

\* GET ...?page=p&limit=l&sort[id]=asc over ids 1..NumRecords.
RemoteData(page, limit) ==
    LET from == (page - 1) * limit
        n    == Max(0, Min(limit, NumRecords - from))
    IN  [i \in 1..n |-> from + i]

RemoteTotal == NumRecords

\* How a request can resolve: a body with both members, a body lacking one or
\* both of them, or a rejection of fetch() or of response.json().
Outcomes ==
    {"ok", "noPagination", "noData", "errorBody", "fetchRejects", "jsonRejects"}

Rejects(outcome) == outcome \in {"fetchRejects", "jsonRejects"}

HasData(outcome) == outcome \in {"ok", "noPagination"}

HasPagination(outcome) == outcome \in {"ok", "noData"}

\* result.data of the response to req
ResultData(req, outcome) ==
    IF HasData(outcome) THEN RemoteData(req.page, req.limit) ELSE Undefined

\* -------------------------------------------------------------- rendering

\* The whole Displayed Page handed to the table as selected.
SelectedRowsWholePage == artworks

\* selection={artworks.filter(art => selection.has(art.id))}
SelectedRows ==
    LET inLedger(id) == id \in selection IN SelectSeq(artworks, inLedger)

\* <strong>Total Selected: {selection.size}</strong>
TotalSelected == Cardinality(selection)

InFlight == BagCardinality(pageInFlight) + BagCardinality(bulkInFlight)

\* ------------------------------------------------------------------ inputs

\* What the Paginator reports: a page size of its options and a page that
\* exists for the totalRecords it was given, with first the offset of that
\* page.
PageExists(page, rows) == page * rows < totalRecords

PaginatorEvents ==
    {event \in {[first |-> p * r, rows |-> r, page |-> p] :
                   r \in RowsPerPageOptions, p \in 0..totalRecords} :
        PageExists(event.page, event.rows)}

\* Texts typed into the numeric input.
InputTexts ==
    {<<>>, <<"0">>, <<"-", "5">>, <<"a", "b", "c">>, <<"1", "5">>}

\* What the DataTable reports when the checkbox of a row is clicked: the
\* selection it was given, without that row if it was in it, with it if not.
Without(rows, id) == LET other(x) == x # id IN SelectSeq(rows, other)

ToggleRow(id) ==
    IF id \in Range(SelectedRows)
    THEN Without(SelectedRows, id)
    ELSE Append(SelectedRows, id)

\* The clicks explored: the checkbox of the last row of the Displayed Page.
SelectionEvents ==
    IF artworks = <<>> THEN {} ELSE {ToggleRow(artworks[Len(artworks)])}

\* ------------------------------------------------------------------- Init

InitialLazyState == [first |-> 0, rows |-> 10, page |-> 0]

\* The state after the first render and its effect: fetchArtworks has set
\* loading and issued the request of the initial Page State.
Init ==
    /\ loading = TRUE
    /\ artworks = <<>>
    /\ totalRecords = 0
    /\ selection = {}
    /\ isPanelOpen = FALSE
    /\ numToSelect = <<>>
    /\ lazyState = InitialLazyState
    /\ pageInFlight = SetToBag({PageRequest(InitialLazyState)})
    /\ bulkInFlight = EmptyBag
    /\ mounted = TRUE
    /\ mark = 0
    /\ markArt = <<>>
    /\ trip = "none"
    /\ issueReq = PageRequest(InitialLazyState)
    /\ issueArt = <<>>
    /\ issueTotal = 0
    /\ changes = 0
    /\ issued = 1
    /\ race = 0
    /\ raceReq = PageRequest(InitialLazyState)

\* ----------------------------------------------------------------- actions

\* The page index stored as the offset.
NewLazyStatePageAsFirst(event) ==
    [first |-> event.page, rows |-> event.rows, page |-> event.page]

\* onPaginatorChange, and the effect keyed on lazyState that follows it.
NewLazyState(event) ==
    [first |-> event.first, rows |-> event.rows, page |-> event.page]

\* An effect keyed on the values of the Page State, not on its identity.
RequestsOnValueChange(newState) ==
    IF newState = lazyState THEN EmptyBag ELSE SetToBag({PageRequest(newState)})

\* useEffect(..., [lazyState]): the updater returns a new object every time,
\* so the effect runs once for every call of setLazyState.
RequestsOfEffect(newState) == SetToBag({PageRequest(newState)})

OnPaginatorChange(event) ==
    /\ mounted
    /\ InFlight < MaxInFlight
    /\ lazyState' = NewLazyState(event)
    /\ loading' = TRUE
    /\ pageInFlight' = pageInFlight (+) RequestsOfEffect(lazyState')
    /\ UNCHANGED <<artworks, totalRecords, selection, isPanelOpen, numToSelect,
                   bulkInFlight, mounted>>

\* A catch block that empties the Displayed Page.
ArtworksAfterClearing(req, outcome) ==
    IF Rejects(outcome) THEN <<>> ELSE ResultData(req, outcome)

\* A resolution that drops the response of a superseded request.
ArtworksAfterIfCurrent(req, outcome) ==
    IF Rejects(outcome) \/ req # PageRequest(lazyState)
    THEN artworks
    ELSE ResultData(req, outcome)

\* The rest of fetchArtworks, from the await on.
ArtworksAfter(req, outcome) ==
    IF Rejects(outcome) THEN artworks ELSE ResultData(req, outcome)

TotalAfter(req, outcome) ==
    IF Rejects(outcome) \/ ~HasPagination(outcome) THEN totalRecords ELSE RemoteTotal

\* finally { setLoading(false) }
\* setLoading(false) at the end of the try block instead of in finally.
LoadingAfterPageInTry(outcome) == IF outcome = "ok" THEN FALSE ELSE loading

LoadingAfterPage(outcome) == FALSE

PageFetchSettle(req, outcome) ==
    /\ BagIn(req, pageInFlight)
    /\ pageInFlight' = pageInFlight (-) SetToBag({req})
    /\ artworks' = ArtworksAfter(req, outcome)
    /\ totalRecords' = TotalAfter(req, outcome)
    /\ loading' = LoadingAfterPage(outcome)
    /\ mounted' = (mounted /\ artworks' # Undefined)
    /\ UNCHANGED <<selection, isPanelOpen, numToSelect, lazyState, bulkInFlight>>

\* handleSelectTopN up to its await.
HandleSelectTopN ==
    /\ mounted
    /\ isPanelOpen
    /\ LET count == ParseInt(numToSelect)
       IN  IF InvalidCount(count)
           THEN UNCHANGED prog
           ELSE /\ InFlight < MaxInFlight
                /\ loading' = TRUE
                /\ bulkInFlight' = bulkInFlight (+) SetToBag({BulkRequest(count.value)})
                /\ UNCHANGED <<artworks, totalRecords, selection, isPanelOpen,
                               numToSelect, lazyState, pageInFlight, mounted>>

\* The ledger replaced by the fetched ids.
BulkReplace(prevSelection, idsToSelect) == Range(idsToSelect)

\* The rest of handleSelectTopN, from the await on.
BulkAdd(prevSelection, idsToSelect) == prevSelection \cup Range(idsToSelect)

\* A resolution without data that empties the ledger.
SelectionAfterBulkResetting(req, outcome) ==
    IF HasData(outcome)
    THEN selection \cup Range(RemoteData(req.page, req.limit))
    ELSE {}

SelectionAfterBulk(req, outcome) ==
    IF HasData(outcome)
    THEN BulkAdd(selection, RemoteData(req.page, req.limit))
    ELSE selection

\* The panel closed in the try block only.
PanelOpenAfterBulkInTry(outcome) == IF Rejects(outcome) THEN isPanelOpen ELSE FALSE

\* The finally block: setLoading(false); setNumToSelect(''); setPanelOpen(false).
LoadingAfterBulk(outcome) == FALSE

NumToSelectAfterBulk(outcome) == <<>>

PanelOpenAfterBulk(outcome) == FALSE

BulkFetchSettle(req, outcome) ==
    /\ BagIn(req, bulkInFlight)
    /\ bulkInFlight' = bulkInFlight (-) SetToBag({req})
    /\ selection' = SelectionAfterBulk(req, outcome)
    /\ loading' = LoadingAfterBulk(outcome)
    /\ numToSelect' = NumToSelectAfterBulk(outcome)
    /\ isPanelOpen' = PanelOpenAfterBulk(outcome)
    /\ UNCHANGED <<artworks, totalRecords, lazyState, pageInFlight, mounted>>

\* The table's own per-page selection taken as the ledger.
ReconcileNaive(prevSelection, currentPageIds, newSelectionIds) == newSelectionIds

\* onSelectionChange
Reconcile(prevSelection, currentPageIds, newSelectionIds) ==
    (prevSelection \ (currentPageIds \ newSelectionIds)) \cup newSelectionIds

OnSelectionChange(value) ==
    /\ mounted
    /\ selection' = Reconcile(selection, Range(artworks), Range(value))
    /\ UNCHANGED <<loading, artworks, totalRecords, isPanelOpen, numToSelect,
                   lazyState, pageInFlight, bulkInFlight, mounted>>

\* onClick={() => setPanelOpen(!isPanelOpen)}
TogglePanel ==
    /\ mounted
    /\ isPanelOpen' = ~isPanelOpen
    /\ UNCHANGED <<loading, artworks, totalRecords, selection, numToSelect,
                   lazyState, pageInFlight, bulkInFlight, mounted>>

\* onChange={(e) => setNumToSelect(e.target.value)}
EditInput(text) ==
    /\ mounted
    /\ isPanelOpen
    /\ numToSelect' = text
    /\ UNCHANGED <<loading, artworks, totalRecords, selection, isPanelOpen,
                   lazyState, pageInFlight, bulkInFlight, mounted>>

PageChange == \E event \in PaginatorEvents : OnPaginatorChange(event)

PageSettle ==
    \E req \in BagToSet(pageInFlight), outcome \in Outcomes :
        PageFetchSettle(req, outcome)

BulkSettle ==
    \E req \in BagToSet(bulkInFlight), outcome \in Outcomes :
        BulkFetchSettle(req, outcome)

SelectionChange == \E value \in SelectionEvents : OnSelectionChange(value)

InputChange == \E text \in InputTexts : EditInput(text)

\* ---------------------------------------------------------------- history

NoTrack == UNCHANGED hist

\* A selection event that adds an id while none is marked marks it; one whose
\* reported selection drops the marked id from the rendered selection ends
\* the marking.
TrackSelection(value) ==
    LET newly      == Range(value) \ selection
        deselected == Range(SelectedRows) \ Range(value)
    IN  /\ UNCHANGED <<issueHist, countHist, raceHist>>
        /\ IF mark = 0 /\ newly # {}
           THEN /\ mark' = CHOOSE id \in newly : \A other \in newly : id <= other
                /\ markArt' = artworks
                /\ trip' = "marked"
           ELSE IF mark \in deselected
           THEN /\ mark' = 0
                /\ markArt' = <<>>
                /\ trip' = "none"
           ELSE UNCHANGED tripHist

\* A page-fetch resolution that leaves another page displayed than the one
\* the mark was made on is "away"; one that displays that page again after
\* having been away is "back".
TrackDisplay ==
    /\ UNCHANGED <<mark, markArt, issueHist, countHist, raceHist>>
    /\ trip' = IF mark = 0 THEN trip
               ELSE IF artworks' # markArt \/ ~mounted' THEN "away"
               ELSE IF trip = "away" THEN "back"
               ELSE trip

\* A page change records the request it issues and what is displayed then.
TrackIssue ==
    /\ UNCHANGED <<tripHist, countHist, raceHist>>
    /\ issueReq' = PageRequest(lazyState')
    /\ issueArt' = artworks
    /\ issueTotal' = totalRecords

Next ==
    \/ PageChange /\ NoTrack
    \/ PageSettle /\ NoTrack
    \/ HandleSelectTopN /\ NoTrack
    \/ BulkSettle /\ NoTrack
    \/ SelectionChange /\ NoTrack
    \/ TogglePanel /\ NoTrack
    \/ InputChange /\ NoTrack

Spec == Init /\ [][Next]_vars

\* The same program with the history variables kept.
SelectionChangeTracked ==
    \E value \in SelectionEvents : OnSelectionChange(value) /\ TrackSelection(value)

NextTrip ==
    \/ PageChange /\ NoTrack
    \/ PageSettle /\ TrackDisplay
    \/ HandleSelectTopN /\ NoTrack
    \/ BulkSettle /\ NoTrack
    \/ SelectionChangeTracked
    \/ TogglePanel /\ NoTrack
    \/ InputChange /\ NoTrack

SpecTrip == Init /\ [][NextTrip]_vars

\* The same program with the history of the last page request kept.
NextIssue ==
    \/ PageChange /\ TrackIssue
    \/ PageSettle /\ NoTrack
    \/ HandleSelectTopN /\ NoTrack
    \/ BulkSettle /\ NoTrack
    \/ SelectionChange /\ NoTrack
    \/ TogglePanel /\ NoTrack
    \/ InputChange /\ NoTrack

SpecIssue == Init /\ [][NextIssue]_vars

\* The same program with the page-change events and the page requests
\* counted: a request is issued when the bag of requests in flight gains one,
\* or keeps its size although a response was taken out of it.
TrackChange ==
    /\ changes < MaxChanges
    /\ UNCHANGED <<tripHist, issueHist, raceHist>>
    /\ changes' = changes + 1
    /\ issued' = issued + BagCardinality(pageInFlight') - BagCardinality(pageInFlight)

TrackSettle ==
    /\ UNCHANGED <<tripHist, issueHist, raceHist, changes>>
    /\ issued' = issued + 1 + BagCardinality(pageInFlight') - BagCardinality(pageInFlight)

NextCount ==
    \/ PageChange /\ TrackChange
    \/ PageSettle /\ TrackSettle
    \/ HandleSelectTopN /\ NoTrack
    \/ BulkSettle /\ NoTrack
    \/ SelectionChange /\ NoTrack
    \/ TogglePanel /\ NoTrack
    \/ InputChange /\ NoTrack

SpecCount == Init /\ [][NextCount]_vars

\* The same program with a race of two page fetches followed.  Stage 1: the
\* Page State changed from P1 to P2 while the fetch of P1, raceReq, was the
\* one page fetch in flight.  Stage 2: the fetch of P2 has resolved with data
\* and pagination and the fetch of P1 is still in flight.  Stage 3: the fetch
\* of P1 has resolved with data and pagination after that.  Anything else
\* ends the race.
TrackRaceChange ==
    /\ UNCHANGED <<tripHist, issueHist, countHist>>
    /\ IF /\ pageInFlight = SetToBag({PageRequest(lazyState)})
          /\ PageRequest(lazyState') # PageRequest(lazyState)
       THEN race' = 1 /\ raceReq' = PageRequest(lazyState)
       ELSE race' = 0 /\ UNCHANGED raceReq

TrackRaceSettle(req, outcome) ==
    /\ UNCHANGED <<tripHist, issueHist, countHist, raceReq>>
    /\ race' = CASE race = 1 /\ req = PageRequest(lazyState) /\ outcome = "ok" -> 2
                  [] race = 2 /\ req = raceReq /\ outcome = "ok" -> 3
                  [] OTHER -> 0

PageSettleRace ==
    \E req \in BagToSet(pageInFlight), outcome \in Outcomes :
        PageFetchSettle(req, outcome) /\ TrackRaceSettle(req, outcome)

NextRace ==
    \/ PageChange /\ TrackRaceChange
    \/ PageSettleRace
    \/ HandleSelectTopN /\ NoTrack
    \/ BulkSettle /\ NoTrack
    \/ SelectionChange /\ NoTrack
    \/ TogglePanel /\ NoTrack
    \/ InputChange /\ NoTrack

SpecRace == Init /\ [][NextRace]_vars

\* Every request that is in flight is eventually answered or fails.
SpecLive == Spec /\ WF_vars(BulkSettle /\ NoTrack) /\ WF_vars(PageSettle /\ NoTrack)

\* ------------------------------------------------------------ properties

\* The first page of ten and the second page of ten of the remote collection.
PageA == RemoteData(1, 10)

PageB == RemoteData(2, 10)

\* The ids of the first fifteen records.
TopFifteen == Range(RemoteData(1, 15))

RejectOutcomes == {"fetchRejects", "jsonRejects"}

\* C1: an id that a selection event added while page A was displayed, and that
\* no selection event has deselected since, is in the ledger and among the
\* rows passed to the table as selected whenever page A is displayed again
\* after another page was displayed in between.
C1_CrossPagePersistence ==
    trip = "back" => mark \in selection /\ mark \in Range(SelectedRows)

\* Page A is displayed again after a trip away, with the marked id selected.
C1_Witness ==
    /\ trip = "back"
    /\ mounted
    /\ artworks = markArt
    /\ mark \in Range(SelectedRows)

\* C2: a selection event whose reported selection lies within the Displayed
\* Page leaves the ledger membership of every id outside that page as it was.
C2_ReconcileIsPageScoped ==
    [][\A value \in SelectionEvents :
         (OnSelectionChange(value) /\ Range(value) \subseteq Range(artworks))
         => (selection' \ Range(artworks)) = (selection \ Range(artworks))]_vars

\* Page A is displayed and the ledger holds exactly its last id and the last
\* id of the collection, which is on another page: one of the two was toggled
\* while the other, off the page, was in the ledger.
C2_Witness ==
    /\ mounted
    /\ artworks = PageA
    /\ selection = {PageA[Len(PageA)], NumRecords}

\* C3: when the table reports the rendered selection minus one row x, the
\* ledger afterwards is the ledger before minus x, and nothing else changes
\* in it.
C3_DeselectRemovesExactlyOne ==
    [][\A x \in Range(SelectedRows) :
         OnSelectionChange(Without(SelectedRows, x))
         => selection' = selection \ {x}]_vars

\* After a bulk selection of the first fifteen, the last row of page A has
\* been deselected: the ledger is the first fifteen without it.
C3_Witness ==
    /\ mounted
    /\ artworks = PageA
    /\ selection = TopFifteen \ {PageA[Len(PageA)]}

\* C4: whatever the outcome of a bulk-identifier fetch, the ledger before its
\* resolution is a subset of the ledger after it.
C4_BulkAddNeverRemoves ==
    [][\A req \in BagToSet(bulkInFlight), outcome \in Outcomes :
         BulkFetchSettle(req, outcome) => selection \subseteq selection']_vars

\* A bulk fetch of the first fifteen is in flight while the ledger holds an id
\* those fifteen do not include.
C4_Witness ==
    /\ BagIn(BulkRequest(15), bulkInFlight)
    /\ \E id \in selection : id \notin TopFifteen

\* The texts of the claim that are no positive integer.
InvalidTexts == {<<>>, <<"0">>, <<"-", "5">>, <<"a", "b", "c">>}

\* C5: a submit with a text that is no positive integer issues no request
\* and leaves the ledger, the text, the panel flag and the loading flag as
\* they were.
C5_InvalidSubmitChangesNothing ==
    [][(HandleSelectTopN /\ numToSelect \in InvalidTexts)
         => UNCHANGED <<selection, numToSelect, isPanelOpen, loading,
                        pageInFlight, bulkInFlight>>]_vars

\* The form is shown with a negative number in it, nothing is in flight and
\* the loading flag is down.
C5_Witness ==
    /\ mounted
    /\ isPanelOpen
    /\ numToSelect = <<"-", "5">>
    /\ InFlight = 0
    /\ ~loading

\* The user events need the rendered view and nothing else the code decides.
UserEventsPossible == mounted

\* C6 as amended: when fetch() or response.json() of a page fetch rejects,
\* the loading flag is cleared, the Displayed Page and the Total Record Count
\* keep the values they had immediately before the rejection was handled,
\* the paginator offers the same pages, and a view that took user events
\* before still takes them.
C6_PageFetchFailureKeepsPage ==
    [][\A req \in BagToSet(pageInFlight), outcome \in RejectOutcomes :
         PageFetchSettle(req, outcome)
         => /\ loading' = FALSE
            /\ artworks' = artworks
            /\ totalRecords' = totalRecords
            /\ PaginatorEvents' = PaginatorEvents
            /\ UserEventsPossible => UserEventsPossible']_vars

\* The view is rendered and shows one page of the collection with its total.
WellFormedDisplay ==
    /\ mounted
    /\ totalRecords = RemoteTotal
    /\ \E rows \in RowsPerPageOptions, page \in 1..NumRecords :
          artworks = RemoteData(page, rows)

\* C6 as stated, for a view that shows a page of the collection: when the
\* page fetch issued last rejects, the loading flag is cleared and the
\* Displayed Page and the Total Record Count are those from before that fetch
\* was issued.
C6_AsStated ==
    [][\A outcome \in RejectOutcomes :
         (/\ WellFormedDisplay
          /\ CopiesIn(issueReq, pageInFlight) = 1
          /\ PageFetchSettle(issueReq, outcome))
         => /\ loading' = FALSE
            /\ artworks' = issueArt
            /\ totalRecords' = issueTotal]_vars

\* Page A is displayed, the Page State is the second page and its fetch is
\* the only one in flight.
C6_Witness ==
    /\ mounted
    /\ artworks = PageA
    /\ totalRecords = RemoteTotal
    /\ lazyState.page = 1
    /\ lazyState.rows = 10
    /\ loading
    /\ pageInFlight = SetToBag({PageRequest(lazyState)})

\* C7: pageIndex * pageSize = firstIndex in every Page State.
C7_PageStateConsistent ==
    lazyState.page * lazyState.rows = lazyState.first

\* The Page State after a change to the second page of ten.
C7_Witness ==
    /\ lazyState.page = 1
    /\ lazyState.rows = 10
    /\ lazyState.first = 10

\* C8: the first request is page=1&limit=10; every page change issues the
\* request page = pageIndex + 1, limit = pageSize of the new Page State; no
\* request in flight asks for page 0; and a response with data and pagination
\* makes the Displayed Page its records and the Total Record Count its total.
C8_PageRequestAndResponse ==
    /\ pageInFlight = SetToBag({[page |-> 1, limit |-> 10, fields |-> PageFields]})
    /\ [](\A req \in BagToSet(pageInFlight) : req.page >= 1)
    /\ [][\A event \in PaginatorEvents :
            OnPaginatorChange(event)
            => pageInFlight' = pageInFlight (+)
                 SetToBag({[page   |-> lazyState'.page + 1,
                            limit  |-> lazyState'.rows,
                            fields |-> PageFields]})]_vars
    /\ [][\A req \in BagToSet(pageInFlight) :
            PageFetchSettle(req, "ok")
            => /\ artworks' = RemoteData(req.page, req.limit)
               /\ totalRecords' = RemoteTotal]_vars

\* The response to page=2&limit=10 is displayed while the Page State is page
\* index 1 of size 10.
C8_Witness ==
    /\ mounted
    /\ lazyState.page = 1
    /\ lazyState.rows = 10
    /\ artworks = PageB
    /\ PageB # <<>>
    /\ totalRecords = RemoteTotal
    /\ pageInFlight = EmptyBag

\* C9: a submit of a text that parses to n > 0 issues page=1, limit=n,
\* fields=id whatever the Page State and the Displayed Page are ("15" asks
\* for limit=15); a response with data makes the ledger the union of the
\* ledger at that time and the returned ids; from an empty ledger and the
\* ids 1..15 the ledger is 1..15 and Total Selected is 15.
C9_BulkRequestAndUnion ==
    /\ [][(HandleSelectTopN /\ ~InvalidCount(ParseInt(numToSelect)))
            => /\ bulkInFlight' = bulkInFlight (+)
                    SetToBag({[page   |-> 1,
                               limit  |-> ParseInt(numToSelect).value,
                               fields |-> "id"]})
               /\ numToSelect = <<"1", "5">>
                    => BagIn([page |-> 1, limit |-> 15, fields |-> "id"],
                             bulkInFlight')]_vars
    /\ [][\A req \in BagToSet(bulkInFlight) :
            BulkFetchSettle(req, "ok")
            => /\ selection' = selection \cup Range(RemoteData(1, req.limit))
               /\ (selection = {} /\ req.limit = 15 /\ NumRecords >= 15)
                    => selection' = 1..15 /\ TotalSelected' = 15]_vars

\* The ledger is the first fifteen ids while the second page is displayed,
\* and the label reads 15.
C9_Witness ==
    /\ mounted
    /\ artworks = PageB
    /\ lazyState.page = 1
    /\ selection = 1..15
    /\ TotalSelected = 15

Closed == numToSelect = <<>> /\ ~isPanelOpen /\ ~loading

Submitting == BagCardinality(bulkInFlight) > 0

\* C10: every resolution of a bulk-identifier fetch, whatever its outcome,
\* ends with the input empty, the panel closed and the loading flag down; and
\* with every request in flight eventually resolving, Submitting leads to
\* Closed.
C10_SubmittingLeadsToClosed ==
    /\ [][\A req \in BagToSet(bulkInFlight), outcome \in Outcomes :
            BulkFetchSettle(req, outcome) => Closed']_vars
    /\ Submitting ~> Closed

\* A bulk fetch is in flight, and since its submit the text was edited and
\* the panel was toggled shut.
C10_Witness ==
    /\ Submitting
    /\ ~isPanelOpen
    /\ numToSelect = <<"a", "b", "c">>

\* C11: the number of page requests issued is 1, for the mount, plus the
\* number of page-change events, whatever the events' values and whatever the
\* outcomes of the fetches.
C11_OneFetchPerPageChange == issued = 1 + changes

\* One page-change event has happened and the Page State is the initial one,
\* so the event reported the values the Page State already had; two requests
\* were issued and both have resolved.
C11_Witness ==
    /\ changes = 1
    /\ issued = 2
    /\ lazyState = InitialLazyState
    /\ pageInFlight = EmptyBag

\* C12: a page fetch that was superseded while in flight is not cancelled:
\* when its response arrives after the response of the newer fetch, the
\* Displayed Page and the Total Record Count are those of the superseded
\* request, no page fetch is in flight, and the Page State is the newer one.
C12_LastResolvedWins ==
    race = 3
    => /\ pageInFlight = EmptyBag
       /\ artworks = RemoteData(raceReq.page, raceReq.limit)
       /\ totalRecords = RemoteTotal
       /\ PageRequest(lazyState) # raceReq

\* The race between the first page and the second page has run to its end:
\* nothing is in flight, the Page State is the second page and the records
\* of the first page are displayed.
C12_Witness ==
    /\ race = 3
    /\ InFlight = 0
    /\ ~loading
    /\ lazyState = [first |-> 10, rows |-> 10, page |-> 1]
    /\ artworks = PageA
    /\ PageA # PageB

\* C13: every resolution of a page fetch either makes the Displayed Page and
\* the Total Record Count the records and the total of that response, or
\* changes neither of them, also when the body lacks data or pagination.
C13_NeverPartiallyUpdated ==
    [][\A req \in BagToSet(pageInFlight), outcome \in Outcomes :
         PageFetchSettle(req, outcome)
         => \/ /\ artworks' = RemoteData(req.page, req.limit)
               /\ totalRecords' = RemoteTotal
            \/ /\ artworks' = artworks
               /\ totalRecords' = totalRecords]_vars

\* C14: a page fetch that is issued or resolves while a bulk fetch is in
\* flight leaves the loading flag true, and a bulk fetch that resolves while
\* a page fetch is in flight leaves the loading flag true.
C14_LoadingNotShared ==
    [][/\ \A event \in PaginatorEvents :
            OnPaginatorChange(event) /\ Submitting' => loading'
       /\ \A req \in BagToSet(pageInFlight), outcome \in Outcomes :
            PageFetchSettle(req, outcome) /\ Submitting' => loading'
       /\ \A req \in BagToSet(bulkInFlight), outcome \in Outcomes :
            BulkFetchSettle(req, outcome) /\ pageInFlight' # EmptyBag
            => loading']_vars

\* C15: whenever the table is rendered, the rows it is given as selected are
\* the records of the Displayed Page whose id is in the ledger, in the order
\* of the page: all of them are on the page, all of them are in the ledger,
\* and there are at most Total Selected of them.
C15_SelectedRowsAreLedgerOnPage ==
    mounted
    => /\ Range(SelectedRows) = Range(artworks) \cap selection
       /\ Range(SelectedRows) \subseteq Range(artworks)
       /\ \A i \in 1..Len(SelectedRows) : SelectedRows[i] \in selection
       /\ Len(SelectedRows) = Cardinality(Range(SelectedRows))
       /\ Len(SelectedRows) <= TotalSelected

\* Some rows of the page are selected, some are not, and the ledger also
\* holds ids of other pages.
C15_Witness ==
    /\ mounted
    /\ SelectedRows # <<>>
    /\ Len(SelectedRows) < Len(artworks)
    /\ Len(SelectedRows) < TotalSelected

\* C16: when no page fetch and no bulk fetch is in flight, the loading flag
\* is false.
C16_QuiescentLoading == InFlight = 0 => ~loading

\* The first page fetch has failed and nothing else has happened: nothing is
\* displayed, nothing is in flight and the flag is down.
C16_Witness ==
    /\ InFlight = 0
    /\ ~loading
    /\ mounted
    /\ artworks = <<>>
    /\ totalRecords = 0

\* C17: page changes, page-fetch resolutions, panel toggles, input edits and
\* submits leave the ledger as it is, and so do bulk resolutions without
\* data; a step that changes the ledger is a selection change or a bulk
\* resolution with data; and every bulk resolution leaves the Page State, the
\* Displayed Page and the Total Record Count as they are.
C17_LedgerWritePaths ==
    [][/\ PageChange => selection' = selection
       /\ PageSettle => selection' = selection
       /\ TogglePanel => selection' = selection
       /\ InputChange => selection' = selection
       /\ HandleSelectTopN => selection' = selection
       /\ \A req \in BagToSet(bulkInFlight), outcome \in Outcomes :
            BulkFetchSettle(req, outcome)
            => /\ ~HasData(outcome) => selection' = selection
               /\ lazyState' = lazyState
               /\ artworks' = artworks
               /\ totalRecords' = totalRecords
       /\ selection' # selection
          => \/ SelectionChange
             \/ \E req \in BagToSet(bulkInFlight), outcome \in Outcomes :
                   HasData(outcome) /\ BulkFetchSettle(req, outcome)]_vars

\* Rows are selected while a bulk fetch and a page fetch are both in flight.
C17_Witness ==
    /\ mounted
    /\ selection # {}
    /\ bulkInFlight # EmptyBag
    /\ pageInFlight # EmptyBag

====
